---- MODULE Spec2Model ----
(***************************************************************************)
(* A model of wait-for (src/main.rs): the target classifier, the TCP and   *)
(* HTTP availability checkers, the retry loop of main and the command      *)
(* executor.  Strings are sequences of one-character strings.  Time is     *)
(* counted in whole seconds.                                               *)
(***************************************************************************)
EXTENDS Integers, Sequences, FiniteSets, TLC

VARIABLES
    cli,          \* the parsed command line: target, timeout, quiet, command
    pc,           \* position of main: "parse", "loop", "check", "sleep", "exec", "done"
    target,       \* the classified Target, NoTarget before parse_target returned
    start_time,   \* Instant recorded at main.rs:245, -1 before
    now,          \* the monotonic clock, in seconds
    out,          \* the lines written to stdout/stderr so far, in order
    exit_code,    \* the exit code of the process, -1 while it runs
    fatal,        \* the error main returned with, "None" if none
    last,         \* what the most recent checker call did
    checks,       \* number of checker invocations
    sleeps,       \* number of thread::sleep calls
    spawns,       \* number of times the trailing command was spawned
    child         \* ExitStatus::code() of the trailing command, NotRun before

vars == <<cli, pc, target, start_time, now, out, exit_code, fatal,
          last, checks, sleeps, spawns, child>>

----------------------------------------------------------------------------
(* Bounds of the model *)

\* longest target string ParseSpec draws over the whole alphabet
MaxLen == 4
\* longest all-digit port text ParseSpec draws (u16::MAX has five digits)
MaxPortLen == 5
\* largest overall timeout (seconds) the command line is given
MaxTimeout == 2
\* most candidate addresses a resolution yields
MaxAddrs == 3
\* most checker invocations modelled when the timeout is 0 (unbounded loop)
MaxChecks == 2

----------------------------------------------------------------------------
(* Strings *)

\* the strings over alphabet A of length at most n
RECURSIVE StringsUpTo(_, _)
StringsUpTo(A, n) ==
    IF n = 0 THEN {<<>>}
    ELSE LET S == StringsUpTo(A, n - 1)
         IN  S \cup {Append(s, c) : s \in {t \in S : Len(t) = n - 1}, c \in A}

\* str::starts_with
starts_with(s, p) == Len(s) >= Len(p) /\ SubSeq(s, 1, Len(p)) = p

\* str::rfind of a character: the 1-based position of its last occurrence, 0 for None
rfind(s, c) ==
    LET I == {i \in 1..Len(s) : s[i] = c}
    IN  IF I = {} THEN 0 ELSE CHOOSE i \in I : \A j \in I : j <= i

HttpScheme  == <<"h", "t", "t", "p", ":", "/", "/">>
HttpsScheme == <<"h", "t", "t", "p", "s", ":", "/", "/">>

\* u16::MAX
U16_MAX == 65535

\* char::to_digit(10), -1 for a character that is no decimal digit
to_digit(c) ==
    CASE c = "0" -> 0 [] c = "1" -> 1 [] c = "2" -> 2 [] c = "3" -> 3
      [] c = "4" -> 4 [] c = "5" -> 5 [] c = "6" -> 6 [] c = "7" -> 7
      [] c = "8" -> 8 [] c = "9" -> 9 [] OTHER -> -1

\* the digit loop of u16::from_str: checked multiply by 10, checked add; -1 for Err
RECURSIVE accumulate(_, _)
accumulate(ds, acc) ==
    IF ds = <<>> THEN acc
    ELSE LET d == to_digit(Head(ds))
         IN  IF d < 0 THEN -1
             ELSE IF acc * 10 + d > U16_MAX THEN -1
             ELSE accumulate(Tail(ds), acc * 10 + d)

\* str::parse::<u16>: empty is an error, a lone sign is an error, one leading
\* "+" is skipped ("-" is no digit of an unsigned type); -1 for Err
parse_u16(s) ==
    IF s = <<>> THEN -1
    ELSE IF Len(s) = 1 /\ s[1] \in {"+", "-"} THEN -1
    ELSE IF s[1] = "+" THEN accumulate(Tail(s), 0)
    ELSE accumulate(s, 0)

----------------------------------------------------------------------------
(* Target and parse_target *)

NoTarget == [kind |-> "None", text |-> <<>>, port |-> 0, err |-> "None"]
HostPort(host, port) == [kind |-> "HostPort", text |-> host, port |-> port, err |-> "None"]
Url(raw) == [kind |-> "Url", text |-> raw, port |-> 0, err |-> "None"]
ParseErr(e) == [kind |-> "Err", text |-> <<>>, port |-> 0, err |-> e]

\* mutant: the string is split at the first ':' (find instead of rfind)
parse_target_find(t, urlOk) ==
    IF starts_with(t, HttpScheme) \/ starts_with(t, HttpsScheme)
    THEN IF urlOk THEN Url(t) ELSE ParseErr("InvalidUrl")
    ELSE LET I == {i \in 1..Len(t) : t[i] = ":"}
             colon_pos == IF I = {} THEN 0 ELSE CHOOSE i \in I : \A j \in I : i <= j
         IN  IF colon_pos # 0
             THEN LET host     == SubSeq(t, 1, colon_pos - 1)
                      port_str == SubSeq(t, colon_pos + 1, Len(t))
                      port     == parse_u16(port_str)
                  IN  IF port < 0 THEN ParseErr("InvalidPort")
                      ELSE IF host = <<>> THEN ParseErr("EmptyHost")
                      ELSE HostPort(host, port)
             ELSE ParseErr("InvalidFormat")

\* parse_target(target); urlOk is the verdict of Url::parse on the string
parse_target(t, urlOk) ==
    IF starts_with(t, HttpScheme) \/ starts_with(t, HttpsScheme)
    THEN IF urlOk THEN Url(t) ELSE ParseErr("InvalidUrl")
    ELSE LET colon_pos == rfind(t, ":")
         IN  IF colon_pos # 0
             THEN LET host     == SubSeq(t, 1, colon_pos - 1)
                      port_str == SubSeq(t, colon_pos + 1, Len(t))
                      port     == parse_u16(port_str)
                  IN  IF port < 0 THEN ParseErr("InvalidPort")
                      ELSE IF host = <<>> THEN ParseErr("EmptyHost")
                      ELSE HostPort(host, port)
             ELSE ParseErr("InvalidFormat")

----------------------------------------------------------------------------
(* Output lines *)

Line(stream, text, kind, arg) ==
    [stream |-> stream, text |-> text, kind |-> kind, arg |-> arg]

\* main.rs:250,253
WaitingLine == Line("stdout", "Waiting for", "None", -1)
\* main.rs:172
ConnSucceededLine == Line("stdout", "Connection succeeded", "None", -1)
\* main.rs:178, for the i-th candidate address
ConnFailedLine(i) == Line("stderr", "Connection failed", "None", i)
\* main.rs:200
HttpSucceededLine(status) == Line("stdout", "HTTP request succeeded", "None", status)
\* main.rs:274
AvailableLine == Line("stdout", "Service is available!", "None", -1)
\* main.rs:280
CheckFailedLine(kind, arg) == Line("stderr", "Check failed", kind, arg)
\* main.rs:281
RetryingLine == Line("stderr", "Retrying", "None", -1)
\* what the runtime prints when main returns Err (main.rs:231)
ErrorLine(kind, arg) == Line("stderr", "Error", kind, arg)

----------------------------------------------------------------------------
(* The checkers *)

\* connect_timeout of check_tcp, seconds
CONNECT_TIMEOUT == 1
\* the client timeout of check_http, seconds
HTTP_TIMEOUT == 2
\* the sleep between two attempts, seconds
RETRY_INTERVAL == 1

CheckResult(ok, err, arg, lines, tried, dur) ==
    [ok |-> ok, err |-> err, arg |-> arg, lines |-> lines, tried |-> tried, dur |-> dur]

\* mutant: the loop does not return at the first connection, it tries every candidate
RECURSIVE connect_loop_all(_, _, _, _, _, _, _)
connect_loop_all(quiet, addrs, durs, i, lines, tried, dur) ==
    IF i > Len(addrs)
    THEN IF \E j \in DOMAIN addrs : addrs[j]
         THEN CheckResult(TRUE, "None", -1, lines, tried, dur)
         ELSE CheckResult(FALSE, "ConnectFailed", -1, lines, tried, dur)
    ELSE connect_loop_all(quiet, addrs, durs, i + 1,
                          IF quiet THEN lines
                          ELSE Append(lines, IF addrs[i] THEN ConnSucceededLine
                                             ELSE ConnFailedLine(i)),
                          Append(tried, i), dur + durs[i])

\* the for loop of check_tcp from candidate i on: addrs[i] tells whether the
\* i-th candidate accepts the connection, durs[i] how long the attempt takes
RECURSIVE connect_loop(_, _, _, _, _, _, _)
connect_loop(quiet, addrs, durs, i, lines, tried, dur) ==
    IF i > Len(addrs)
    THEN CheckResult(FALSE, "ConnectFailed", -1, lines, tried, dur)
    ELSE IF addrs[i]
    THEN CheckResult(TRUE, "None", -1,
                     IF quiet THEN lines ELSE Append(lines, ConnSucceededLine),
                     Append(tried, i), dur + durs[i])
    ELSE connect_loop(quiet, addrs, durs, i + 1,
                      IF quiet THEN lines ELSE Append(lines, ConnFailedLine(i)),
                      Append(tried, i), dur + durs[i])

\* check_tcp: resolved tells whether to_socket_addrs returned Ok, addrs are the
\* candidates it yielded
check_tcp(quiet, resolved, addrs, durs) ==
    IF ~resolved THEN CheckResult(FALSE, "ResolutionFailed", -1, <<>>, <<>>, 0)
    ELSE IF addrs = <<>> THEN CheckResult(FALSE, "NoAddresses", -1, <<>>, <<>>, 0)
    ELSE connect_loop(quiet, addrs, durs, 1, <<>>, <<>>, 0)

\* mutant: the upper end of the success range is off by one
is_success_upto300(status) == 200 <= status /\ status <= 300

\* StatusCode::is_success
is_success(status) == 200 <= status /\ status < 300

\* check_http: built tells whether the client could be built, sent whether a
\* response came back, status is the response's status code
check_http(quiet, built, sent, status, dur) ==
    IF ~built THEN CheckResult(FALSE, "ClientBuildFailed", -1, <<>>, <<>>, 0)
    ELSE IF ~sent THEN CheckResult(FALSE, "RequestFailed", -1, <<>>, <<>>, dur)
    ELSE IF is_success(status)
    THEN CheckResult(TRUE, "None", status,
                     IF quiet THEN <<>> ELSE <<HttpSucceededLine(status)>>, <<>>, dur)
    ELSE CheckResult(FALSE, "HttpStatusFailed", status, <<>>, <<>>, dur)

----------------------------------------------------------------------------
(* The command executor *)

\* ExitStatus::code() of a child that a signal killed (None)
NoCode == -1

\* mutant: a command that could not be launched is passed over in silence
execute_command_unchecked(command, spawned, code) ==
    IF command = <<>> THEN [spawn |-> FALSE, exits |-> FALSE, code |-> 0, err |-> "None"]
    ELSE IF ~spawned THEN [spawn |-> TRUE, exits |-> FALSE, code |-> 0, err |-> "None"]
    ELSE [spawn |-> TRUE, exits |-> TRUE,
          code |-> IF code = NoCode THEN 1 ELSE code, err |-> "None"]

\* mutant: a child without an exit code counts as exit code 0
execute_command_or0(command, spawned, code) ==
    IF command = <<>> THEN [spawn |-> FALSE, exits |-> FALSE, code |-> 0, err |-> "None"]
    ELSE IF ~spawned THEN [spawn |-> TRUE, exits |-> FALSE, code |-> 0, err |-> "SpawnFailed"]
    ELSE [spawn |-> TRUE, exits |-> TRUE,
          code |-> IF code = NoCode THEN 0 ELSE code, err |-> "None"]

\* execute_command: spawned tells whether Command::status returned Ok, code is
\* the child's ExitStatus::code().  exits: process::exit was called with .code
execute_command(command, spawned, code) ==
    IF command = <<>> THEN [spawn |-> FALSE, exits |-> FALSE, code |-> 0, err |-> "None"]
    ELSE IF ~spawned THEN [spawn |-> TRUE, exits |-> FALSE, code |-> 0, err |-> "SpawnFailed"]
    ELSE [spawn |-> TRUE, exits |-> TRUE,
          code |-> IF code = NoCode THEN 1 ELSE code, err |-> "None"]

----------------------------------------------------------------------------
(* The environment the model draws from *)

\* "h:80", "h" (no colon), "h:x" (bad port), "http://h"
Targets == { <<"h", ":", "8", "0">>, <<"h">>, <<"h", ":", "x">>, HttpScheme \o <<"h">> }
Commands == { <<>>, <<"sh", "-c">> }
Statuses == {199, 200, 299, 300, 404}
ChildCodes == {0, 1, 42, NoCode}
\* the clock readings at which main may start
BootTimes == {0, 1}

\* the target strings the classifier is run on: every string of at most MaxLen
\* characters, the host-and-digits strings with at most MaxPortLen digits, and
\* strings that begin with (or nearly with) a URL scheme
Alphabet == {"h", ":", "+", "-", "0", "5"}
ParseTargets ==
    StringsUpTo(Alphabet, MaxLen)
    \cup { pre \o p : pre \in { <<"h", ":">>, <<":">>, <<>> },
                      p \in StringsUpTo({"0", "3", "5", "6"}, MaxPortLen) }
    \cup { sch \o r : sch \in {HttpScheme, HttpsScheme},
                      r \in StringsUpTo({"h", ":"}, 1) }
    \cup { SubSeq(HttpScheme, 1, 5) \o <<"5">>, SubSeq(HttpScheme, 1, 6),
           SubSeq(HttpsScheme, 1, 7) \o <<"5">> }

\* ExitStatus::code() of a child that was never run
NotRun == -2
\* the status of a response that never came
NoStatus == -1

\* what the environment gave a checker call
TcpEnv(resolved, addrs, durs) ==
    [resolved |-> resolved, addrs |-> addrs, durs |-> durs,
     built |-> FALSE, sent |-> FALSE, status |-> NoStatus]
HttpEnv(built, sent, status) ==
    [resolved |-> FALSE, addrs |-> <<>>, durs |-> <<>>,
     built |-> built, sent |-> sent, status |-> status]

\* what matters of a CheckResult besides the lines it printed
Outcome(r) == [ok |-> r.ok, err |-> r.err, arg |-> r.arg, tried |-> r.tried, dur |-> r.dur]

NoCheck == [checker |-> "none", env |-> HttpEnv(FALSE, FALSE, NoStatus),
            res |-> CheckResult(FALSE, "None", -1, <<>>, <<>>, 0),
            twin |-> Outcome(CheckResult(FALSE, "None", -1, <<>>, <<>>, 0)),
            started |-> -1]

----------------------------------------------------------------------------
(* main *)

\* Instant::elapsed of start_time
elapsed == now - start_time

\* mutant: the test is strict
timed_out_strict(timeout, e) == timeout # 0 /\ e > timeout

\* mutant: a timeout of 0 is taken for a duration of zero seconds
timed_out_zero(timeout, e) == e >= timeout

\* the timeout test at the top of the loop: timeout_duration is Some and has passed
timed_out(timeout, e) == timeout # 0 /\ e >= timeout

\* main returns Err(kind): the runtime prints the error and exits with code 1
Bail(kind, arg) ==
    /\ pc' = "done"
    /\ fatal' = kind
    /\ exit_code' = 1
    /\ out' = Append(out, ErrorLine(kind, arg))

Init ==
    /\ cli \in [target : Targets, timeout : 0..MaxTimeout, quiet : BOOLEAN,
                command : Commands]
    /\ pc = "parse"
    /\ target = NoTarget
    /\ start_time = -1
    /\ now \in BootTimes
    /\ out = <<>>
    /\ exit_code = -1
    /\ fatal = "None"
    /\ last = NoCheck
    /\ checks = 0
    /\ sleeps = 0
    /\ spawns = 0
    /\ child = NotRun

\* mutant: the start time is recorded and the target announced before it is classified
Parse_announce_first ==
    /\ pc = "parse"
    /\ \E urlOk \in BOOLEAN :
         LET t == parse_target(cli.target, urlOk)
         IN  /\ start_time' = now
             /\ IF t.kind = "Err"
                THEN /\ pc' = "done"
                     /\ fatal' = t.err
                     /\ exit_code' = 1
                     /\ out' = (IF cli.quiet THEN out ELSE Append(out, WaitingLine))
                                \o <<ErrorLine(t.err, -1)>>
                     /\ UNCHANGED target
                ELSE /\ target' = t
                     /\ out' = IF cli.quiet THEN out ELSE Append(out, WaitingLine)
                     /\ pc' = "loop"
                     /\ UNCHANGED <<exit_code, fatal>>
    /\ UNCHANGED <<cli, now, last, checks, sleeps, spawns, child>>

\* main.rs:232-256: classify the target, record the start time, announce
Parse ==
    /\ pc = "parse"
    /\ \E urlOk \in BOOLEAN :
         LET t == parse_target(cli.target, urlOk)
         IN  IF t.kind = "Err"
             THEN /\ Bail(t.err, -1)
                  /\ UNCHANGED <<target, start_time>>
             ELSE /\ target' = t
                  /\ start_time' = now
                  /\ out' = IF cli.quiet THEN out ELSE Append(out, WaitingLine)
                  /\ pc' = "loop"
                  /\ UNCHANGED <<exit_code, fatal>>
    /\ UNCHANGED <<cli, now, last, checks, sleeps, spawns, child>>

\* mutant: the loop gives up after MaxChecks attempts, whatever the clock says
LoopTop_attempt_cap ==
    /\ pc = "loop"
    /\ IF checks >= MaxChecks
       THEN Bail("TooManyAttempts", checks)
       ELSE IF timed_out(cli.timeout, elapsed)
       THEN Bail("Timeout", cli.timeout)
       ELSE /\ pc' = "check"
            /\ UNCHANGED <<out, exit_code, fatal>>
    /\ UNCHANGED <<cli, target, start_time, now, last, checks, sleeps, spawns, child>>

\* main.rs:258-264: the top of the loop
LoopTop ==
    /\ pc = "loop"
    /\ cli.timeout = 0 => checks < MaxChecks
    /\ IF timed_out(cli.timeout, elapsed)
       THEN Bail("Timeout", cli.timeout)
       ELSE /\ pc' = "check"
            /\ UNCHANGED <<out, exit_code, fatal>>
    /\ UNCHANGED <<cli, target, start_time, now, last, checks, sleeps, spawns, child>>

\* mutant: the failure lines are printed without looking at the quiet flag
loop_lines_noisy(quiet, r) ==
    IF r.ok THEN (IF quiet THEN <<>> ELSE <<AvailableLine>>)
    ELSE <<CheckFailedLine(r.err, r.arg), RetryingLine>>

\* mutant: the retry notice is printed before the error
loop_lines_retry_first(quiet, r) ==
    IF quiet THEN <<>>
    ELSE IF r.ok THEN <<AvailableLine>>
    ELSE <<RetryingLine, CheckFailedLine(r.err, r.arg)>>

\* main.rs:271-284: what the loop prints for a checker's result r
loop_lines(quiet, r) ==
    IF quiet THEN <<>>
    ELSE IF r.ok THEN <<AvailableLine>>
    ELSE <<CheckFailedLine(r.err, r.arg), RetryingLine>>

\* mutant: only the three connection-level errors are retried, any other ends the run
after_check_abort(r) ==
    IF r.ok THEN "exec" ELSE IF r.err \in {"ConnectFailed", "RequestFailed", "HttpStatusFailed"} THEN "sleep" ELSE "done"

\* mutant: the break is missing, a success goes round the loop again
after_check_nobreak(r) == IF r.ok THEN "loop" ELSE "sleep"

\* mutant: the loop is left whatever the checker returned
after_check_always(r) == "exec"

\* main.rs:271-286: where the loop goes after a checker's result r: Ok breaks
\* out of the loop, every Err falls through to the sleep
after_check(r) == IF r.ok THEN "exec" ELSE "sleep"

\* mutant: the deadline is looked at again when the checker returns, and a
\* success that arrives past it is reported as a timeout
Checked_deadline(checker, env, r, rq) ==
    /\ last' = [checker |-> checker, env |-> env, res |-> r, twin |-> Outcome(rq),
                started |-> elapsed]
    /\ checks' = checks + 1
    /\ now' = now + r.dur
    /\ IF r.ok /\ timed_out(cli.timeout, elapsed + r.dur)
       THEN /\ pc' = "done"
            /\ fatal' = "Timeout"
            /\ exit_code' = 1
            /\ out' = out \o r.lines \o <<ErrorLine("Timeout", cli.timeout)>>
       ELSE /\ out' = out \o r.lines \o loop_lines(cli.quiet, r)
            /\ pc' = after_check(r)
            /\ UNCHANGED <<exit_code, fatal>>
    /\ UNCHANGED <<cli, target, start_time, sleeps, spawns, child>>

\* main.rs:266-284: the loop's handling of one checker call.  r is the
\* checker's result, rq the result of the same call, on the same environment,
\* with the quiet flag negated (kept in last.twin for comparison)
Checked(checker, env, r, rq) ==
    /\ last' = [checker |-> checker, env |-> env, res |-> r, twin |-> Outcome(rq),
                started |-> elapsed]
    /\ checks' = checks + 1
    /\ now' = now + r.dur
    /\ out' = out \o r.lines \o loop_lines(cli.quiet, r)
    /\ pc' = after_check(r)
    /\ UNCHANGED <<cli, target, start_time, exit_code, fatal, sleeps, spawns, child>>

\* mutant: the TCP checker is called whatever the variant of the target
CheckTcp_any_target ==
    /\ pc = "check"
    /\ \E resolved \in BOOLEAN, n \in 0..MaxAddrs :
         \E addrs \in [1..n -> BOOLEAN], durs \in [1..n -> 0..CONNECT_TIMEOUT] :
            /\ ~resolved => n = 0
            /\ Checked("tcp", TcpEnv(resolved, addrs, durs),
                       check_tcp(cli.quiet, resolved, addrs, durs),
                       check_tcp(~cli.quiet, resolved, addrs, durs))

\* main.rs:267: one call of check_tcp and the match on its result
CheckTcp ==
    /\ pc = "check"
    /\ target.kind = "HostPort"
    /\ \E resolved \in BOOLEAN, n \in 0..MaxAddrs :
         \E addrs \in [1..n -> BOOLEAN], durs \in [1..n -> 0..CONNECT_TIMEOUT] :
            /\ ~resolved => n = 0
            /\ Checked("tcp", TcpEnv(resolved, addrs, durs),
                       check_tcp(cli.quiet, resolved, addrs, durs),
                       check_tcp(~cli.quiet, resolved, addrs, durs))

\* main.rs:268: one call of check_http and the match on its result
CheckHttp ==
    /\ pc = "check"
    /\ target.kind = "Url"
    /\ \E built \in BOOLEAN, sent \in BOOLEAN, status \in Statuses \cup {NoStatus},
          dur \in 0..HTTP_TIMEOUT :
            /\ ~built => ~sent /\ dur = 0
            /\ sent <=> status # NoStatus
            /\ Checked("http", HttpEnv(built, sent, status),
                       check_http(cli.quiet, built, sent, status, dur),
                       check_http(~cli.quiet, built, sent, status, dur))

\* mutant: the retry interval grows with the number of retries
Sleep_backoff ==
    /\ pc = "sleep"
    /\ now' = now + RETRY_INTERVAL * (sleeps + 1)
    /\ sleeps' = sleeps + 1
    /\ pc' = "loop"
    /\ UNCHANGED <<cli, target, start_time, out, exit_code, fatal, last, checks,
                   spawns, child>>

\* mutant: the loop goes round without sleeping
Sleep_none ==
    /\ pc = "sleep"
    /\ now' = now
    /\ sleeps' = sleeps + 1
    /\ pc' = "loop"
    /\ UNCHANGED <<cli, target, start_time, out, exit_code, fatal, last, checks,
                   spawns, child>>

\* mutant: the retry interval is two seconds
Sleep_two ==
    /\ pc = "sleep"
    /\ now' = now + 2
    /\ sleeps' = sleeps + 1
    /\ pc' = "loop"
    /\ UNCHANGED <<cli, target, start_time, out, exit_code, fatal, last, checks,
                   spawns, child>>

\* main.rs:286
Sleep ==
    /\ pc = "sleep"
    /\ now' = now + RETRY_INTERVAL
    /\ sleeps' = sleeps + 1
    /\ pc' = "loop"
    /\ UNCHANGED <<cli, target, start_time, out, exit_code, fatal, last, checks,
                   spawns, child>>

\* main.rs:289-291: execute_command, then Ok(())
Exec ==
    /\ pc = "exec"
    /\ \E spawned \in BOOLEAN, code \in ChildCodes :
         LET r == execute_command(cli.command, spawned, code)
         IN  /\ spawns' = IF r.spawn THEN spawns + 1 ELSE spawns
             /\ child' = IF r.spawn /\ spawned THEN code ELSE child
             /\ IF r.err # "None"
                THEN Bail(r.err, -1)
                ELSE /\ pc' = "done"
                     /\ exit_code' = r.code
                     /\ UNCHANGED <<out, fatal>>
    /\ UNCHANGED <<cli, target, start_time, now, last, checks, sleeps>>

Next == Parse \/ LoopTop \/ CheckTcp \/ CheckHttp \/ Sleep \/ Exec

Spec == Init /\ [][Next]_vars

\* the runs termination is asked of: a finite timeout; quiet and started at
\* clock reading 0, since the lines printed and the clock's origin grow the
\* state and decide nothing of where main goes
FairInit == Init /\ cli.timeout > 0 /\ cli.quiet /\ now = 0

\* every checker call, every sleep and the child return: a step that can be
\* taken is taken
FairSpec == FairInit /\ [][Next]_vars /\ WF_vars(Next)

\* the classifier alone, on every string of ParseTargets
ParseInit ==
    /\ cli \in [target : ParseTargets, timeout : {0}, quiet : BOOLEAN,
                command : {<<>>}]
    /\ pc = "parse"
    /\ target = NoTarget
    /\ start_time = -1
    /\ now = 0
    /\ out = <<>>
    /\ exit_code = -1
    /\ fatal = "None"
    /\ last = NoCheck
    /\ checks = 0
    /\ sleeps = 0
    /\ spawns = 0
    /\ child = NotRun

ParseSpec == ParseInit /\ [][Parse]_vars

----------------------------------------------------------------------------
(* Notions the properties are stated in *)

\* the error kinds of the target classifier
ParseErrKinds == {"InvalidFormat", "InvalidUrl", "InvalidPort", "EmptyHost"}
\* the error kinds a checker returns
CheckErrKinds == {"ResolutionFailed", "NoAddresses", "ConnectFailed",
                  "ClientBuildFailed", "RequestFailed", "HttpStatusFailed"}
\* the error kinds section 7 of the specification calls recovered
RecoveredKinds == {"ConnectFailed", "RequestFailed", "HttpStatusFailed"}

Checked1 == last.checker # "none"
TextsOf(lines) == {lines[i].text : i \in DOMAIN lines}

----------------------------------------------------------------------------
(* C1 *)

\* C1: at the top of every loop iteration, a finite timeout T > 0 with
\* elapsed >= T ends the program in the Timeout failure (error line carrying T,
\* nonzero exit) without any further check, sleep or command; with elapsed < T
\* (or no timeout) the checker is run next.
C1_TimeoutTestedAtLoopTop ==
    [][/\ pc = "loop" =>
            IF cli.timeout > 0 /\ now - start_time >= cli.timeout
            THEN /\ pc' = "done"
                 /\ fatal' = "Timeout"
                 /\ exit_code' # 0
                 /\ out' = Append(out, ErrorLine("Timeout", cli.timeout))
                 /\ checks' = checks /\ sleeps' = sleeps /\ spawns' = spawns
            ELSE pc' = "check" /\ fatal' = "None" /\ exit_code' = -1
       /\ pc = "check" => checks' = checks + 1 /\ last'.started = now - start_time
       /\ fatal = "Timeout" =>
            checks' = checks /\ sleeps' = sleeps /\ spawns' = spawns]_vars

\* a run that failed twice and then timed out
C1_Witness ==
    /\ fatal = "Timeout" /\ pc = "done" /\ exit_code = 1
    /\ checks = 2 /\ sleeps = 2 /\ cli.timeout = 2

----------------------------------------------------------------------------
(* C2 *)

----------------------------------------------------------------------------
(* C3 *)

\* C3: once the trailing command has been spawned and has ended (which needs
\* a successful check and a non-empty command), the process exit code is the
\* child's exit code, and 1 if the child ended without one.
C3_ExitCodeIsChildCode ==
    (pc = "done" /\ child # NotRun) =>
        /\ Checked1 /\ last.res.ok /\ cli.command # <<>>
        /\ fatal = "None"
        /\ exit_code = (IF child = NoCode THEN 1 ELSE child)

\* the child exited with 42 and so did the process
C3_Witness == pc = "done" /\ child = 42 /\ exit_code = 42 /\ spawns = 1

----------------------------------------------------------------------------
(* C4 *)

\* C4: when a checker call that was started in time (elapsed < T, or T = 0)
\* returns success, the run is in Success (the executor is next, or has run),
\* Timeout is not reported, and with an empty command the exit code is 0.
C4_SuccessEndsInSuccess ==
    (Checked1 /\ last.res.ok /\ (cli.timeout = 0 \/ last.started < cli.timeout)) =>
        /\ pc \in {"exec", "done"}
        /\ fatal # "Timeout"
        /\ "Error" \notin TextsOf(out) \/ fatal = "SpawnFailed"
        /\ (pc = "done" /\ cli.command = <<>>) => (exit_code = 0 /\ fatal = "None")

\* a check that began before the deadline and returned success after it, then exit 0
C4_Witness ==
    /\ Checked1 /\ last.res.ok /\ pc = "done" /\ cli.command = <<>>
    /\ exit_code = 0 /\ checks >= 2
    /\ cli.timeout > 0 /\ last.started < cli.timeout /\ now - start_time >= cli.timeout

----------------------------------------------------------------------------
(* C5 *)

\* C5: in quiet mode nothing is printed but the final fatal error (no
\* "Waiting for", no per-address line, no checker success line, no "Check
\* failed", no "Retrying", no "Service is available!"), and the quiet flag has
\* no influence on the exit code: every checker call returns what the same call
\* returns with the flag negated, and the exit code is decided by the fatal
\* error and the child alone.
C5_QuietPrintsOnlyFatalError ==
    /\ cli.quiet =>
         \A i \in DOMAIN out :
            /\ out[i].text = "Error" /\ out[i].kind = fatal
            /\ i = Len(out) /\ pc = "done" /\ fatal # "None"
    /\ Checked1 => Outcome(last.res) = last.twin
    /\ pc = "done" =>
         exit_code = (IF fatal # "None" THEN 1
                      ELSE IF child = NotRun THEN 0
                      ELSE IF child = NoCode THEN 1 ELSE child)

\* a quiet run that failed twice and timed out, with the error as its only line
C5_Witness ==
    /\ cli.quiet /\ pc = "done" /\ fatal = "Timeout" /\ checks >= 2
    /\ out = <<ErrorLine("Timeout", cli.timeout)>>

----------------------------------------------------------------------------
(* C6 *)

\* C6: with timeout 0 no step reports Timeout, the loop top always goes on to
\* the checker, a failed check always goes on to the 1-second sleep and the
\* sleep back to the loop top, and the loop is left only by a successful check.
C6_NoTimeoutLoopUnbounded ==
    [][cli.timeout = 0 =>
         /\ fatal' # "Timeout"
         /\ pc = "loop" => pc' = "check"
         /\ pc = "check" => checks' = checks + 1
         /\ (pc = "check" /\ ~last'.res.ok) => pc' = "sleep"
         /\ pc = "sleep" => (pc' = "loop" /\ now' = now + 1)
         /\ (pc \in {"loop", "check", "sleep"} /\ pc' \notin {"loop", "check", "sleep"}) =>
              (pc = "check" /\ last'.res.ok /\ pc' = "exec")]_vars

\* with timeout 0 the loop is still running after MaxChecks failures, long past
\* any timeout the model draws
C6_Witness ==
    /\ cli.timeout = 0 /\ pc = "loop" /\ fatal = "None"
    /\ checks >= MaxChecks /\ sleeps >= MaxChecks /\ now - start_time > MaxTimeout

----------------------------------------------------------------------------
(* C7 *)

\* C7: the trailing command is spawned at most once, only from Success (the
\* latest checker call returned Ok); a run ended by a classifier error or by
\* Timeout has not spawned it; after the spawn no check is performed.
C7_CommandSpawnedOnceAfterSuccess ==
    [][/\ spawns' <= 1
       /\ spawns' # spawns =>
            (Checked1 /\ last.res.ok /\ spawns = 0 /\ cli.command # <<>> /\ fatal = "None")
       /\ fatal' \in ParseErrKinds \cup {"Timeout"} => (spawns' = 0 /\ child' = NotRun)
       /\ spawns >= 1 => checks' = checks]_vars

\* the command was spawned after a failed check and a successful one
C7_Witness == spawns = 1 /\ checks >= 2 /\ sleeps >= 1 /\ pc = "done" /\ child # NotRun

----------------------------------------------------------------------------
(* C8 *)

Numerals == <<"0", "1", "2", "3", "4", "5", "6", "7", "8", "9">>
IsNumeral(c) == \E n \in 1..10 : Numerals[n] = c
NumeralValue(c) == (CHOOSE n \in 1..10 : Numerals[n] = c) - 1

\* the number a string of decimal digits denotes
RECURSIVE Denotes(_)
Denotes(s) ==
    IF s = <<>> THEN 0
    ELSE 10 * Denotes(SubSeq(s, 1, Len(s) - 1)) + NumeralValue(s[Len(s)])

\* the digits of a port text: the text itself, less one leading "+"
PortDigits(p) == IF p # <<>> /\ p[1] = "+" THEN Tail(p) ELSE p

\* the text of an unsigned 16-bit integer, as u16::from_str reads it
ValidU16Text(p) ==
    LET d == PortDigits(p)
    IN  d # <<>> /\ (\A i \in DOMAIN d : IsNumeral(d[i])) /\ Denotes(d) <= 65535

HasScheme(t) ==
    \/ Len(t) >= 7 /\ SubSeq(t, 1, 7) = <<"h", "t", "t", "p", ":", "/", "/">>
    \/ Len(t) >= 8 /\ SubSeq(t, 1, 8) = <<"h", "t", "t", "p", "s", ":", "/", "/">>

HasColon(t) == \E i \in DOMAIN t : t[i] = ":"
\* the position of the last ':' of a string that has one
LastColon(t) == CHOOSE i \in DOMAIN t : t[i] = ":" /\ \A j \in (i + 1)..Len(t) : t[j] # ":"
HostPart(t) == SubSeq(t, 1, LastColon(t) - 1)
PortPart(t) == SubSeq(t, LastColon(t) + 1, Len(t))

\* C8 as stated: for a target without http(s) scheme, HostPort(host, port) of
\* the split at the last ':' exactly when the port text is a valid u16 and the
\* host is non-empty; InvalidPort when the port text is not a valid u16,
\* EmptyHost when the host part is empty, InvalidFormat without any ':'.
C8_ParseHostPortAsStated ==
    (pc # "parse" /\ ~HasScheme(cli.target)) =>
        IF ~HasColon(cli.target) THEN fatal = "InvalidFormat"
        ELSE /\ target.kind = "HostPort" <=>
                  (ValidU16Text(PortPart(cli.target)) /\ HostPart(cli.target) # <<>>)
             /\ target.kind = "HostPort" =>
                  target = HostPort(HostPart(cli.target),
                                    Denotes(PortDigits(PortPart(cli.target))))
             /\ ~ValidU16Text(PortPart(cli.target)) => fatal = "InvalidPort"
             /\ HostPart(cli.target) = <<>> => fatal = "EmptyHost"

\* C8 (amended): as stated, except that the port text is examined first:
\* InvalidPort whenever the port text is not a valid u16 (also with an empty
\* host), EmptyHost when the host part is empty and the port text is valid.
C8_ParseHostPort ==
    (pc # "parse" /\ ~HasScheme(cli.target)) =>
        IF ~HasColon(cli.target) THEN fatal = "InvalidFormat" /\ target = NoTarget
        ELSE IF ~ValidU16Text(PortPart(cli.target))
        THEN fatal = "InvalidPort" /\ target = NoTarget
        ELSE IF HostPart(cli.target) = <<>>
        THEN fatal = "EmptyHost" /\ target = NoTarget
        ELSE /\ fatal = "None"
             /\ target = HostPort(HostPart(cli.target),
                                  Denotes(PortDigits(PortPart(cli.target))))

\* "h:65535" was classified as HostPort("h", 65535)
C8_Witness ==
    /\ pc = "loop" /\ cli.target = <<"h", ":", "6", "5", "5", "3", "5">>
    /\ target = HostPort(<<"h">>, 65535)

----------------------------------------------------------------------------
(* C9 *)

\* C9: a target that fails classification ends the program with a nonzero
\* exit and the classifier's error as the only output, before the start time
\* is recorded: no "Waiting for" line, no check, no sleep, no command; for a
\* target with neither scheme nor ':' the error is InvalidFormat ("Target must
\* be in format").
C9_ParseFailureStopsBeforeStart ==
    /\ fatal \in ParseErrKinds =>
         /\ pc = "done" /\ exit_code > 0
         /\ start_time = -1 /\ target = NoTarget
         /\ out = <<ErrorLine(fatal, -1)>>
         /\ checks = 0 /\ sleeps = 0 /\ spawns = 0 /\ ~Checked1
    /\ (pc # "parse" /\ ~HasScheme(cli.target) /\ ~HasColon(cli.target)) =>
         fatal = "InvalidFormat"

\* the target "h" (no colon, no scheme) was rejected
C9_Witness ==
    /\ cli.target = <<"h">> /\ pc = "done" /\ fatal = "InvalidFormat" /\ exit_code = 1

----------------------------------------------------------------------------
(* C10 *)

\* C10: check_http returns Ok exactly when a response came back with a status
\* in 200..299; any other status gives HttpStatusFailed carrying the status, a
\* transport error gives RequestFailed, and a failing call prints nothing.
C10_HttpSuccessIff2xx ==
    last.checker = "http" =>
        /\ last.res.ok <=> (last.env.sent /\ last.env.status \in 200..299)
        /\ (last.env.sent /\ last.env.status \notin 200..299) =>
             (last.res.err = "HttpStatusFailed" /\ last.res.arg = last.env.status)
        /\ (last.env.built /\ ~last.env.sent) => last.res.err = "RequestFailed"
        /\ ~last.res.ok => last.res.lines = <<>>

\* a response with status 300 was turned into HttpStatusFailed(300), silently
C10_Witness ==
    /\ last.checker = "http" /\ last.env.sent /\ last.env.status = 300
    /\ last.res.err = "HttpStatusFailed" /\ last.res.arg = 300 /\ ~cli.quiet
    /\ out[Len(out) - 1] = CheckFailedLine("HttpStatusFailed", 300)

----------------------------------------------------------------------------
(* C11 *)

----------------------------------------------------------------------------
(* C12 *)

\* by how much the elapsed time exceeds the overall timeout
Overrun == (now - start_time) - cli.timeout

\* C12 as stated: Timeout is reported at most one per-attempt timeout (1 s for
\* a TCP target, 2 s for an HTTP target) plus the 1-second sleep after T,
\* however many addresses a TCP target resolves to.
C12_OverrunAsStated ==
    fatal = "Timeout" => Overrun <= (IF last.checker = "tcp" THEN 1 ELSE 2) + 1

\* C12 (amended): Timeout is reported right after the sleep that follows a
\* failed check begun before T, so it exceeds T by less than the duration of
\* that check plus the 1-second sleep.  An HTTP check lasts at most 2 s; a TCP
\* check lasts at most 1 s for each candidate address, so its bound grows with
\* the number of addresses the host resolves to.
C12_OverrunBound ==
    fatal = "Timeout" =>
        /\ Checked1 /\ ~last.res.ok
        /\ last.started < cli.timeout
        /\ now - start_time = last.started + last.res.dur + 1
        /\ last.res.dur <= (IF last.checker = "tcp" THEN Len(last.env.addrs) * 1 ELSE 2)
        /\ Overrun < (IF last.checker = "tcp" THEN Len(last.env.addrs) * 1 ELSE 2) + 1

\* three candidate addresses each ran into the connect timeout: Timeout is
\* reported 3 s after T
C12_Witness ==
    /\ fatal = "Timeout" /\ last.checker = "tcp" /\ Len(last.env.addrs) = 3
    /\ last.res.dur = 3 /\ Overrun = 3

----------------------------------------------------------------------------
(* C13 *)

\* the positions of main inside the retry loop
LoopStates == {"loop", "check", "sleep"}
\* the terminal states of the retry loop
InSuccess == Checked1 /\ last.res.ok /\ pc \in {"exec", "done"}
InTimedOut == pc = "done" /\ fatal = "Timeout"

\* C13: with a finite timeout T > 0, when every call returns, a run that has
\* entered the loop eventually reaches Success or TimedOut, and the loop is
\* left in no other way.
C13_LoopTerminates ==
    /\ []((cli.timeout > 0 /\ pc \in LoopStates) => <>(InSuccess \/ InTimedOut))
    /\ [][(cli.timeout > 0 /\ pc \in LoopStates /\ pc' \notin LoopStates) =>
            \/ pc = "check" /\ pc' = "exec" /\ last'.res.ok
            \/ pc = "loop" /\ pc' = "done" /\ fatal' = "Timeout"]_vars

\* a run with a finite timeout that was Retrying twice and then timed out
C13_Witness ==
    /\ cli.timeout > 0 /\ InTimedOut /\ checks >= 2 /\ sleeps >= 2

----------------------------------------------------------------------------
(* C14 *)

\* C14: check_tcp attempts the candidates one at a time in resolution order
\* (the attempts are candidates 1, 2, ..., k, each once); it returns Ok exactly
\* when some candidate connects, at the first such candidate and with no
\* attempt after it; it returns ConnectFailed exactly when the list is
\* non-empty and no candidate connects, every candidate having been attempted.
C14_TcpFirstSuccessWins ==
    last.checker = "tcp" =>
        LET a == last.env.addrs
            r == last.res
            Connecting == {i \in DOMAIN a : a[i]}
        IN  /\ \A k \in DOMAIN r.tried : r.tried[k] = k
            /\ Len(r.tried) <= Len(a)
            /\ r.ok <=> Connecting # {}
            /\ r.ok => /\ Len(r.tried) \in Connecting
                       /\ \A i \in Connecting : Len(r.tried) <= i
            /\ r.err = "ConnectFailed" <=> (a # <<>> /\ Connecting = {})
            /\ r.err = "ConnectFailed" => Len(r.tried) = Len(a)
            /\ ~cli.quiet =>
                 {l.arg : l \in {m \in {r.lines[k] : k \in DOMAIN r.lines} :
                                   m.text = "Connection failed"}}
                 = {i \in DOMAIN r.tried : ~a[i]}

\* the first candidate refused, the second connected, the third was not tried
C14_Witness ==
    /\ last.checker = "tcp" /\ last.env.addrs = <<FALSE, TRUE, TRUE>>
    /\ last.res.ok /\ last.res.tried = <<1, 2>>

----------------------------------------------------------------------------
(* C15 *)

\* C15: the overall timeout is tested only at the top of an iteration.  Every
\* checker call starts while elapsed < T and runs for its whole duration; a
\* call that returns Ok past the deadline still sends the run to the executor;
\* a Timeout is reported only after a failed call and the sleep that follows
\* it, never after a successful call.
C15_NoMidAttemptCancellation ==
    /\ (Checked1 /\ cli.timeout > 0) => last.started < cli.timeout
    /\ (Checked1 /\ pc \in {"sleep", "exec"}) => elapsed = last.started + last.res.dur
    /\ (Checked1 /\ last.res.ok /\ cli.timeout > 0 /\ elapsed >= cli.timeout) =>
         /\ pc \in {"exec", "done"}
         /\ fatal \in {"None", "SpawnFailed"}
         /\ pc = "done" => spawns = (IF cli.command = <<>> THEN 0 ELSE 1)
    /\ fatal = "Timeout" =>
         (Checked1 /\ ~last.res.ok /\ sleeps = checks /\ spawns = 0)

\* an HTTP call started one second before the deadline returned Ok one
\* second after it, and the command was run
C15_Witness ==
    /\ last.checker = "http" /\ last.res.ok /\ cli.timeout = 2
    /\ last.started = 1 /\ last.res.dur = 2 /\ elapsed = 3
    /\ pc = "done" /\ fatal = "None" /\ spawns = 1

----------------------------------------------------------------------------
(* C16 *)

\* C16: exactly one sleep lies between two consecutive checker calls, none
\* before the first call and none after a successful call: the sleeps counted
\* are one less than the calls once a call has returned and the run has not
\* slept after it, and as many as the calls otherwise.  Every sleep lasts
\* RETRY_INTERVAL = 1 second whatever came before, and no time passes between
\* a successful call and the executor.
C16_OneFixedSleepBetweenChecks ==
    /\ [](/\ pc \in {"parse", "loop", "check"} => sleeps = checks
          /\ pc \in {"sleep", "exec"} => (checks >= 1 /\ sleeps = checks - 1)
          /\ pc = "done" =>
                sleeps = (IF Checked1 /\ last.res.ok THEN checks - 1 ELSE checks)
          /\ pc = "exec" => (last.res.ok /\ elapsed = last.started + last.res.dur))
    /\ [][(sleeps' # sleeps =>
              (pc = "sleep" /\ pc' = "loop" /\ sleeps' = sleeps + 1 /\ now' = now + 1
               /\ ~last.res.ok /\ checks' = checks))
          /\ (checks' # checks =>
                (pc = "check" /\ checks' = checks + 1 /\ sleeps' = sleeps))
          /\ (pc = "exec" => now' = now)]_vars

\* a failed call, one sleep, a second call that succeeded, and the run ended
\* without a further sleep
C16_Witness ==
    /\ pc = "done" /\ last.res.ok /\ fatal = "None" /\ checks = sleeps + 1
    /\ sleeps >= 1 /\ elapsed = last.started + last.res.dur

----------------------------------------------------------------------------
(* C17 *)

LinesWith(text) == {i \in DOMAIN out : out[i].text = text}

SuccessLineTexts == {"Connection succeeded", "HTTP request succeeded"}

\* C17: with quiet off, once the target is classified the output starts with
\* the one Waiting line; every Check failed line is directly followed by a
\* Retrying line and every Retrying line directly follows a Check failed line,
\* one pair per failed call, all printed by the time the run sleeps;
\* Service is available! is printed at most once, directly after the
\* checker's own success line, with no command spawned before it, and the
\* only line that can follow it is the runtime's report of a spawn failure.
C17_MessageOrder ==
    ~cli.quiet =>
        /\ LinesWith("Waiting for") = (IF start_time = -1 THEN {} ELSE {1})
        /\ \A i \in LinesWith("Check failed") :
              i + 1 \in DOMAIN out /\ out[i + 1] = RetryingLine
        /\ \A i \in LinesWith("Retrying") :
              i > 1 /\ out[i - 1].text = "Check failed"
        /\ Cardinality(LinesWith("Check failed")) =
              (IF Checked1 /\ last.res.ok THEN checks - 1 ELSE checks)
        /\ Cardinality(LinesWith("Retrying")) = (IF pc = "sleep" THEN sleeps + 1 ELSE sleeps)
        /\ Cardinality(LinesWith("Service is available!")) =
              (IF Checked1 /\ last.res.ok THEN 1 ELSE 0)
        /\ \A i \in LinesWith("Service is available!") :
              /\ i > 1 /\ out[i - 1].text \in SuccessLineTexts
              /\ \A j \in DOMAIN out : j > i =>
                    (j = i + 1 /\ out[j] = ErrorLine("SpawnFailed", -1))
              /\ pc = "exec" => (spawns = 0 /\ i = Len(out))

\* two failed calls and a successful one, the command then failed to start
C17_Witness ==
    /\ ~cli.quiet /\ pc = "done" /\ fatal = "SpawnFailed"
    /\ Cardinality(LinesWith("Check failed")) >= 1
    /\ Cardinality(LinesWith("Service is available!")) = 1
    /\ out[Len(out)] = ErrorLine("SpawnFailed", -1)

----------------------------------------------------------------------------
(* C18 *)

\* C18: no step of the loop changes the command line's values (target text,
\* timeout, quiet flag, command), the classified target or the recorded start
\* time, and every checker call of a run is made by the checker of the
\* target's variant: check_tcp for HostPort, check_http for Url.
C18_LoopLeavesConfigurationUnchanged ==
    /\ [](Checked1 =>
            last.checker = (IF target.kind = "HostPort" THEN "tcp" ELSE "http"))
    /\ [][(pc \in LoopStates) =>
            (cli' = cli /\ target' = target /\ start_time' = start_time
             /\ ((Checked1 /\ last' # last) => last'.checker = last.checker))]_vars

\* a run on a Url target that has made two HTTP calls
C18_Witness ==
    /\ target.kind = "Url" /\ last.checker = "http" /\ checks >= 2 /\ sleeps >= 2
    /\ start_time \in BootTimes /\ elapsed >= 2

----------------------------------------------------------------------------
(* C19 *)

\* C19: in a run with a timeout T >= 1 whose start time has been recorded (the
\* clock does not move between that and the first test) the checker has been
\* called at most T times, and at least once when the run has ended.
C19_ChecksBetweenOneAndT ==
    (cli.timeout >= 1 /\ start_time # -1) =>
        /\ checks <= cli.timeout
        /\ pc \in {"sleep", "exec", "done"} => checks >= 1
        /\ sleeps >= checks - 1
        /\ elapsed >= sleeps * RETRY_INTERVAL

\* T calls of no duration, each failed, then the timeout
C19_Witness ==
    /\ cli.timeout = MaxTimeout /\ checks = cli.timeout /\ fatal = "Timeout"
    /\ elapsed = cli.timeout

====
